---- MODULE Spec2Model ----
(***************************************************************************)
(* Model of the ClimbLogForm component (src/components/ClimbLogForm.tsx):  *)
(* the twelve useState cells, the two props read by the handlers, and one  *)
(* action per event handler.  Strings that the code inspects character by  *)
(* character (the route name, the text of the number inputs) are sequences *)
(* of one-character strings; strings that are only tested for emptiness    *)
(* and passed on (grade, location, notes) are TLA+ strings.                *)
(*                                                                         *)
(* A JavaScript value that may be undefined is modelled as a set with at   *)
(* most one element: {} is undefined, {v} is the value v.  A property of   *)
(* the object handed to onSubmit whose value is undefined is treated as    *)
(* absent (the prop type declares those properties optional).              *)
(***************************************************************************)
EXTENDS Integers, Sequences, FiniteSets, TLC

\* ---------------------------------------------------------------- bounds
MaxNameLen == 2
MaxEdits == 4
MaxLoggedEdits == 3

\* ------------------------------------------------------- program constants
DefaultEffort == 7
MinEffort == 1
MaxEffort == 10
DefaultAttempts == 1
MaxAttempts == 5

\* -------------------------------------------------------------- input sets
NameChars == {" ", "a"}
TickTypes == {"send", "attempt", "flash", "onsight"}
AttemptChoices == DefaultAttempts..MaxAttempts
LocationInputs == {"", "Crag"}
NotesInputs == {"", "beta"}
NumberTexts == {<<>>, <<"0">>, <<"1", "2">>}
PhysicalTags == {"power"}
TechnicalTags == {"crimps"}
SessionLocations == {{}, {"Gym X"}}
GradeSystems == {"yds", "unknown"}

Undefined == {}

NamesUpTo(n) == UNION {[1..k -> NameChars] : k \in 0..n}

VARIABLES
    name, grade, location, tickType, attempts, height, timeOnWall, effort,
    notes, physicalSkills, technicalSkills, showOptional,
    sessionLocation, gradeSystem,
    lastOp, calls, edits, prevAttempts, earlierSubmitted, logging, log

draft == <<name, grade, location, tickType, attempts, height, timeOnWall,
           effort, notes, physicalSkills, technicalSkills>>
props == <<sessionLocation, gradeSystem>>
vars == <<draft, showOptional, props, lastOp, calls, edits, prevAttempts,
          earlierSubmitted, logging, log>>

\* ------------------------------------------------------------ pure helpers
\* getGradesForSystem(gradeSystem): the Grade Catalog, an ordered list of
\* labels per grading system, empty for a system it does not know.
getGradesForSystem(system) ==
    IF system = "yds" THEN <<"5.9", "5.10a">> ELSE <<>>

\* the catalog of one fixed system, whatever the gradeSystem prop says
availableGradesMut == getGradesForSystem("yds")
availableGrades == getGradesForSystem(gradeSystem)

SeqRange(s) == {s[i] : i \in 1..Len(s)}

\* sessionLocation || ""
SessionLocationOrEmptyMut == ""
SessionLocationOrEmpty ==
    IF sessionLocation = Undefined THEN "" ELSE CHOOSE l \in sessionLocation : TRUE

\* String.prototype.trim on a sequence of characters (not called by the
\* component; the reference against which the emitted name is compared).
RECURSIVE TrimLeft(_)
TrimLeft(s) == IF s # <<>> /\ Head(s) = " " THEN TrimLeft(Tail(s)) ELSE s
RECURSIVE TrimRight(_)
TrimRight(s) ==
    IF s # <<>> /\ s[Len(s)] = " " THEN TrimRight(SubSeq(s, 1, Len(s) - 1)) ELSE s
Trim(s) == TrimRight(TrimLeft(s))

\* Number(text) for the text of an <input type="number">: decimal digits.
DigitValue(c) ==
    CASE c = "0" -> 0 [] c = "1" -> 1 [] c = "2" -> 2 [] c = "3" -> 3
      [] c = "4" -> 4 [] c = "5" -> 5 [] c = "6" -> 6 [] c = "7" -> 7
      [] c = "8" -> 8 [] c = "9" -> 9
RECURSIVE Number(_)
Number(text) ==
    IF text = <<>> THEN 0
    ELSE 10 * Number(SubSeq(text, 1, Len(text) - 1)) + DigitValue(text[Len(text)])

\* e.target.value ? Number(e.target.value) : undefined
ParseNumberInput(text) == IF text # <<>> THEN {Number(text)} ELSE Undefined

\* ------------------------------------------------------------------- submit
\* !name || !grade   (guard of handleSubmit, disabled= of the submit button)
SubmitBlockedMut == grade = ""
SubmitBlocked == name = <<>> \/ grade = ""

\* The properties of the object literal passed to onSubmit, each as an
\* optional value.
NameArg == {name}
GradeArg == {grade}
LocationArgMut == {location}
LocationArg == IF location # "" THEN {location} ELSE Undefined
TickTypeArg == {tickType}
AttemptsArgMut == {attempts}
AttemptsArg == IF tickType = "attempt" THEN {attempts} ELSE Undefined
HeightArg == height
TimeOnWallArg == timeOnWall
EffortArgMut == IF effort[1] # DefaultEffort THEN {effort[1]} ELSE Undefined
EffortArg == {effort[1]}
NotesArg == IF notes # "" THEN {notes} ELSE Undefined
PhysicalSkillsArg == IF Cardinality(physicalSkills) > 0 THEN {physicalSkills} ELSE Undefined
TechnicalSkillsArg == IF Cardinality(technicalSkills) > 0 THEN {technicalSkills} ELSE Undefined

ClimbKeys == {"name", "grade", "location", "tickType", "attempts", "height",
              "timeOnWall", "effort", "notes", "physicalSkills", "technicalSkills"}

ClimbArg(k) ==
    CASE k = "name" -> NameArg
      [] k = "grade" -> GradeArg
      [] k = "location" -> LocationArg
      [] k = "tickType" -> TickTypeArg
      [] k = "attempts" -> AttemptsArg
      [] k = "height" -> HeightArg
      [] k = "timeOnWall" -> TimeOnWallArg
      [] k = "effort" -> EffortArg
      [] k = "notes" -> NotesArg
      [] k = "physicalSkills" -> PhysicalSkillsArg
      [] k = "technicalSkills" -> TechnicalSkillsArg

\* The climb handed to onSubmit: a function from the keys whose value is
\* defined to that value.
Climb ==
    [k \in {key \in ClimbKeys : ClimbArg(key) # Undefined} |->
        CHOOSE v \in ClimbArg(k) : TRUE]

\* ------------------------------------------------------------------ actions
\* The state after the first render: every cell at its useState initial value.
Opened ==
    /\ sessionLocation \in SessionLocations
    /\ gradeSystem \in GradeSystems
    /\ name = <<>>
    /\ grade = ""
    /\ location = SessionLocationOrEmpty
    /\ tickType = "send"
    /\ attempts = DefaultAttempts
    /\ height = Undefined
    /\ timeOnWall = Undefined
    /\ effort = <<DefaultEffort>>
    /\ notes = ""
    /\ physicalSkills = {}
    /\ technicalSkills = {}
    /\ showOptional = FALSE
    /\ lastOp = "open"
    /\ calls = <<>>
    /\ edits = 0
    /\ prevAttempts = DefaultAttempts
    /\ earlierSubmitted = FALSE
    /\ log = <<>>

Init == Opened /\ logging = FALSE

\* The same opening state with the log of updates switched on.
InitLog == Opened /\ logging = TRUE

\* The last handler called onSubmit.
SubmitCalled == calls # <<>> /\ calls[1].cb = "onSubmit"

\* Bookkeeping of a handler that only updates state cells: it calls neither
\* callback.  edits counts the updates made to the current draft;
\* prevAttempts is the value of attempts before the last handler ran;
\* earlierSubmitted says that a handler before the last one called onSubmit;
\* log, when logging, lists the updates made to the current draft with the
\* input of each.
Handled(op, input) ==
    /\ edits < (IF logging THEN MaxLoggedEdits ELSE MaxEdits)
    /\ edits' = edits + 1
    /\ lastOp' = op
    /\ calls' = <<>>
    /\ prevAttempts' = attempts
    /\ earlierSubmitted' = (earlierSubmitted \/ SubmitCalled)
    /\ log' = IF logging THEN Append(log, <<op, input>>) ELSE log
    /\ UNCHANGED <<props, logging>>

\* onChange of the name input: setName(e.target.value)
SetName ==
    \E v \in NamesUpTo(MaxNameLen) :
        /\ name' = v
        /\ Handled("setName", v)
        /\ UNCHANGED <<grade, location, tickType, attempts, height, timeOnWall,
                       effort, notes, physicalSkills, technicalSkills, showOptional>>

\* A grade field that also accepts a label outside the catalog.
SetGradeMut ==
    \E g \in SeqRange(availableGrades) \cup {"V3"} :
        /\ grade' = g
        /\ Handled("setGrade", g)
        /\ UNCHANGED <<name, location, tickType, attempts, height, timeOnWall,
                       effort, notes, physicalSkills, technicalSkills, showOptional>>

\* onValueChange of the grade select: one SelectItem per available grade
SetGrade ==
    \E g \in SeqRange(availableGrades) :
        /\ grade' = g
        /\ Handled("setGrade", g)
        /\ UNCHANGED <<name, location, tickType, attempts, height, timeOnWall,
                       effort, notes, physicalSkills, technicalSkills, showOptional>>

\* if (type !== "attempt") setAttempts(1)
AttemptsAfterClickMut(type) == attempts
AttemptsAfterClickAlwaysReset(type) == DefaultAttempts
AttemptsAfterClick(type) == IF type # "attempt" THEN DefaultAttempts ELSE attempts

\* onClick of a tick type badge
TickTypeClick ==
    \E type \in TickTypes :
        /\ tickType' = type
        /\ attempts' = AttemptsAfterClick(type)
        /\ Handled("tickTypeClick", type)
        /\ UNCHANGED <<name, grade, location, height, timeOnWall, effort, notes,
                       physicalSkills, technicalSkills, showOptional>>

\* An attempts select that is rendered for every tick type.
SetAttemptsMut ==
    \E num \in AttemptChoices :
        /\ attempts' = num
        /\ Handled("setAttempts", num)
        /\ UNCHANGED <<name, grade, location, tickType, height, timeOnWall, effort,
                       notes, physicalSkills, technicalSkills, showOptional>>

\* onValueChange of the attempts select, rendered only for tick type attempt
SetAttempts ==
    \E num \in AttemptChoices :
        /\ tickType = "attempt"
        /\ attempts' = num
        /\ Handled("setAttempts", num)
        /\ UNCHANGED <<name, grade, location, tickType, height, timeOnWall, effort,
                       notes, physicalSkills, technicalSkills, showOptional>>

\* A toggle that clears the notes when it hides the optional section.
ToggleOptionalMut ==
    /\ showOptional' = ~showOptional
    /\ notes' = IF showOptional THEN "" ELSE notes
    /\ Handled("toggleOptional", ~showOptional)
    /\ UNCHANGED <<name, grade, location, tickType, attempts, height, timeOnWall,
                   effort, physicalSkills, technicalSkills>>

\* onClick of the optional fields toggle: setShowOptional(!showOptional)
ToggleOptional ==
    /\ showOptional' = ~showOptional
    /\ Handled("toggleOptional", ~showOptional)
    /\ UNCHANGED draft

\* onChange of the LocationSelector, rendered only while showOptional
SetLocation ==
    \E v \in LocationInputs \cup {SessionLocationOrEmpty} :
        /\ showOptional
        /\ location' = v
        /\ Handled("setLocation", v)
        /\ UNCHANGED <<name, grade, tickType, attempts, height, timeOnWall, effort,
                       notes, physicalSkills, technicalSkills, showOptional>>

\* onChange of the height input
SetHeight ==
    \E text \in NumberTexts :
        /\ showOptional
        /\ height' = ParseNumberInput(text)
        /\ Handled("setHeight", text)
        /\ UNCHANGED <<name, grade, location, tickType, attempts, timeOnWall, effort,
                       notes, physicalSkills, technicalSkills, showOptional>>

\* onChange of the timeOnWall input
SetTimeOnWall ==
    \E text \in NumberTexts :
        /\ showOptional
        /\ timeOnWall' = ParseNumberInput(text)
        /\ Handled("setTimeOnWall", text)
        /\ UNCHANGED <<name, grade, location, tickType, attempts, height, effort,
                       notes, physicalSkills, technicalSkills, showOptional>>

\* onValueChange of the effort slider (min 1, max 10, step 1): a one-element array
SetEffort ==
    \E v \in MinEffort..MaxEffort :
        /\ showOptional
        /\ effort' = <<v>>
        /\ Handled("setEffort", v)
        /\ UNCHANGED <<name, grade, location, tickType, attempts, height, timeOnWall,
                       notes, physicalSkills, technicalSkills, showOptional>>

\* onPhysicalSkillsChange of the SkillsSelector
SetPhysicalSkills ==
    \E tags \in SUBSET PhysicalTags :
        /\ showOptional
        /\ physicalSkills' = tags
        /\ Handled("setPhysicalSkills", tags)
        /\ UNCHANGED <<name, grade, location, tickType, attempts, height, timeOnWall,
                       effort, notes, technicalSkills, showOptional>>

\* onTechnicalSkillsChange of the SkillsSelector
SetTechnicalSkills ==
    \E tags \in SUBSET TechnicalTags :
        /\ showOptional
        /\ technicalSkills' = tags
        /\ Handled("setTechnicalSkills", tags)
        /\ UNCHANGED <<name, grade, location, tickType, attempts, height, timeOnWall,
                       effort, notes, physicalSkills, showOptional>>

\* onChange of the notes textarea
SetNotes ==
    \E v \in NotesInputs :
        /\ showOptional
        /\ notes' = v
        /\ Handled("setNotes", v)
        /\ UNCHANGED <<name, grade, location, tickType, attempts, height, timeOnWall,
                       effort, physicalSkills, technicalSkills, showOptional>>

\* handleSubmit when the guard returns early: nothing is called or set
SubmitRejected ==
    /\ SubmitBlocked
    /\ lastOp' = "submit"
    /\ calls' = <<>>
    /\ prevAttempts' = attempts
    /\ earlierSubmitted' = (earlierSubmitted \/ SubmitCalled)
    /\ UNCHANGED <<draft, showOptional, props, edits, logging, log>>

\* setLocation(sessionLocation || "") in the reset of handleSubmit
LocationAfterSubmitMut == location
LocationAfterSubmit == SessionLocationOrEmpty

\* A handleSubmit whose reset leaves out the tick type and the attempts.
SubmitAcceptedKeepsTickType ==
    /\ ~SubmitBlocked
    /\ calls' = <<[cb |-> "onSubmit", climb |-> Climb]>>
    /\ name' = <<>>
    /\ grade' = ""
    /\ location' = LocationAfterSubmit
    /\ height' = Undefined
    /\ timeOnWall' = Undefined
    /\ effort' = <<DefaultEffort>>
    /\ notes' = ""
    /\ physicalSkills' = {}
    /\ technicalSkills' = {}
    /\ showOptional' = FALSE
    /\ lastOp' = "submit"
    /\ edits' = 0
    /\ prevAttempts' = attempts
    /\ earlierSubmitted' = (earlierSubmitted \/ SubmitCalled)
    /\ log' = <<>>
    /\ UNCHANGED <<tickType, attempts, props, logging>>

\* A handleSubmit whose reset leaves out the name and the grade.
SubmitAcceptedKeepsNameGrade ==
    /\ ~SubmitBlocked
    /\ calls' = <<[cb |-> "onSubmit", climb |-> Climb]>>
    /\ location' = LocationAfterSubmit
    /\ tickType' = "send"
    /\ attempts' = DefaultAttempts
    /\ height' = Undefined
    /\ timeOnWall' = Undefined
    /\ effort' = <<DefaultEffort>>
    /\ notes' = ""
    /\ physicalSkills' = {}
    /\ technicalSkills' = {}
    /\ showOptional' = FALSE
    /\ lastOp' = "submit"
    /\ edits' = 0
    /\ prevAttempts' = attempts
    /\ earlierSubmitted' = (earlierSubmitted \/ SubmitCalled)
    /\ log' = <<>>
    /\ UNCHANGED <<name, grade, props, logging>>

\* A handleSubmit that also calls onCancel to close the form.
SubmitAcceptedMut ==
    /\ ~SubmitBlocked
    /\ calls' = <<[cb |-> "onSubmit", climb |-> Climb], [cb |-> "onCancel"]>>
    /\ name' = <<>>
    /\ grade' = ""
    /\ location' = LocationAfterSubmit
    /\ tickType' = "send"
    /\ attempts' = DefaultAttempts
    /\ height' = Undefined
    /\ timeOnWall' = Undefined
    /\ effort' = <<DefaultEffort>>
    /\ notes' = ""
    /\ physicalSkills' = {}
    /\ technicalSkills' = {}
    /\ showOptional' = FALSE
    /\ lastOp' = "submit"
    /\ edits' = 0
    /\ prevAttempts' = attempts
    /\ earlierSubmitted' = (earlierSubmitted \/ SubmitCalled)
    /\ log' = <<>>
    /\ UNCHANGED <<props, logging>>

\* handleSubmit past the guard: onSubmit(climb), then the reset
SubmitAccepted ==
    /\ ~SubmitBlocked
    /\ calls' = <<[cb |-> "onSubmit", climb |-> Climb]>>
    /\ name' = <<>>
    /\ grade' = ""
    /\ location' = LocationAfterSubmit
    /\ tickType' = "send"
    /\ attempts' = DefaultAttempts
    /\ height' = Undefined
    /\ timeOnWall' = Undefined
    /\ effort' = <<DefaultEffort>>
    /\ notes' = ""
    /\ physicalSkills' = {}
    /\ technicalSkills' = {}
    /\ showOptional' = FALSE
    /\ lastOp' = "submit"
    /\ edits' = 0
    /\ prevAttempts' = attempts
    /\ earlierSubmitted' = (earlierSubmitted \/ SubmitCalled)
    /\ log' = <<>>
    /\ UNCHANGED <<props, logging>>

\* A Cancel that also resets the state cells, as handleSubmit does.
CancelMut ==
    /\ calls' = <<[cb |-> "onCancel"]>>
    /\ name' = <<>>
    /\ grade' = ""
    /\ location' = SessionLocationOrEmpty
    /\ tickType' = "send"
    /\ attempts' = DefaultAttempts
    /\ height' = Undefined
    /\ timeOnWall' = Undefined
    /\ effort' = <<DefaultEffort>>
    /\ notes' = ""
    /\ physicalSkills' = {}
    /\ technicalSkills' = {}
    /\ showOptional' = FALSE
    /\ lastOp' = "cancel"
    /\ edits' = 0
    /\ prevAttempts' = attempts
    /\ earlierSubmitted' = (earlierSubmitted \/ SubmitCalled)
    /\ UNCHANGED <<props, logging, log>>

\* onClick of the Cancel button is the onCancel prop itself: no state cell
\* is set
Cancel ==
    /\ calls' = <<[cb |-> "onCancel"]>>
    /\ lastOp' = "cancel"
    /\ prevAttempts' = attempts
    /\ earlierSubmitted' = (earlierSubmitted \/ SubmitCalled)
    /\ UNCHANGED <<draft, showOptional, props, edits, logging, log>>

Next ==
    \/ SetName
    \/ SetGrade
    \/ TickTypeClick
    \/ SetAttempts
    \/ ToggleOptional
    \/ SetLocation
    \/ SetHeight
    \/ SetTimeOnWall
    \/ SetEffort
    \/ SetPhysicalSkills
    \/ SetTechnicalSkills
    \/ SetNotes
    \/ SubmitRejected
    \/ SubmitAccepted
    \/ Cancel

Spec == Init /\ [][Next]_vars

SpecLog == InitLog /\ [][Next]_vars

TypeOK ==
    /\ name \in NamesUpTo(MaxNameLen)
    /\ grade \in {""} \cup SeqRange(availableGrades)
    /\ tickType \in TickTypes
    /\ attempts \in AttemptChoices
    /\ effort \in [1..1 -> MinEffort..MaxEffort]
    /\ showOptional \in BOOLEAN
    /\ edits \in 0..MaxEdits
    /\ earlierSubmitted \in BOOLEAN
    /\ Len(log) = (IF logging THEN edits ELSE 0)
    /\ prevAttempts \in AttemptChoices

\* ------------------------------------------------------- shared vocabulary
\* Submitted is the climb passed by the last handler, when SubmitCalled.
Submitted == calls[1].climb

\* The step calls onSubmit; SubmittedNext is the climb it passes, built from
\* the draft the step starts in.
SubmitStep == calls' # <<>> /\ calls'[1].cb = "onSubmit"
SubmittedNext == calls'[1].climb

DefaultDraft ==
    <<<<>>, "", IF sessionLocation = Undefined THEN "" ELSE CHOOSE l \in sessionLocation : TRUE,
      "send", DefaultAttempts, Undefined, Undefined, <<DefaultEffort>>, "", {}, {}>>

\* The cells, showOptional included, as the first render leaves them.
OpenState == Append(DefaultDraft, FALSE)

\* The cells after one logged update <<handler, input>> is applied to the
\* cells d, by the handler's own code.
ApplyUpdate(d, u) ==
    LET op == u[1]
        input == u[2]
    IN  CASE op = "setName" -> [d EXCEPT ![1] = input]
          [] op = "setGrade" -> [d EXCEPT ![2] = input]
          [] op = "setLocation" -> [d EXCEPT ![3] = input]
          [] op = "tickTypeClick" ->
                [d EXCEPT ![4] = input,
                          ![5] = IF input # "attempt" THEN DefaultAttempts ELSE @]
          [] op = "setAttempts" -> [d EXCEPT ![5] = input]
          [] op = "setHeight" -> [d EXCEPT ![6] = ParseNumberInput(input)]
          [] op = "setTimeOnWall" -> [d EXCEPT ![7] = ParseNumberInput(input)]
          [] op = "setEffort" -> [d EXCEPT ![8] = <<input>>]
          [] op = "setNotes" -> [d EXCEPT ![9] = input]
          [] op = "setPhysicalSkills" -> [d EXCEPT ![10] = input]
          [] op = "setTechnicalSkills" -> [d EXCEPT ![11] = input]
          [] op = "toggleOptional" -> [d EXCEPT ![12] = input]

\* The cells after the logged updates l are applied in order to the cells d.
RECURSIVE Replay(_, _)
Replay(d, l) == IF l = <<>> THEN d ELSE Replay(ApplyUpdate(d, Head(l)), Tail(l))

\* ----------------------------------------------------------------- claims
\* C1: submission is allowed iff the name is non-empty after trimming and
\* the grade is non-empty.
C1_CanSubmitIffTrimmedNameAndGrade ==
    (~SubmitBlocked) <=> (Trim(name) # <<>> /\ grade # "")

\* C2: the climb passed to onSubmit has the key attempts iff the draft's
\* tick type is attempt, and then its value is the draft's attempts, in 1..5.
C2_AttemptsKeyIffAttempt ==
    [][SubmitStep =>
        /\ ("attempts" \in DOMAIN SubmittedNext) <=> (tickType = "attempt")
        /\ "attempts" \in DOMAIN SubmittedNext =>
              /\ SubmittedNext["attempts"] = attempts
              /\ SubmittedNext["attempts"] \in 1..5]_vars

C2_Witness ==
    /\ SubmitCalled
    /\ "attempts" \in DOMAIN Submitted
    /\ Submitted["attempts"] = 3
    /\ Submitted["tickType"] = "attempt"

\* C3: a click on a tick type other than attempt sets attempts to 1 whatever
\* it was, and a click on attempt right after such a click still shows 1.
C3_NonAttemptClickResetsAttempts ==
    [][/\ (lastOp' = "tickTypeClick" /\ tickType' # "attempt") => attempts' = 1
       /\ (/\ lastOp = "tickTypeClick" /\ tickType # "attempt"
           /\ lastOp' = "tickTypeClick" /\ tickType' = "attempt") => attempts' = 1]_vars

C3_Witness ==
    /\ lastOp = "tickTypeClick"
    /\ tickType = "send"
    /\ prevAttempts \in 2..5
    /\ attempts = 1

\* C4: location, height, timeOnWall, notes and the two skill sets are absent
\* from the climb when the draft's value is empty or unset and otherwise
\* present with the draft's value; no value in the climb is an empty string
\* or an empty collection.
C4_OptionalKeysOmittedWhenEmpty ==
    [][SubmitStep =>
        LET c == SubmittedNext IN
        /\ ("location" \in DOMAIN c) <=> (location # "")
        /\ "location" \in DOMAIN c => c["location"] = location
        /\ ("height" \in DOMAIN c) <=> (height # Undefined)
        /\ "height" \in DOMAIN c => {c["height"]} = height
        /\ ("timeOnWall" \in DOMAIN c) <=> (timeOnWall # Undefined)
        /\ "timeOnWall" \in DOMAIN c => {c["timeOnWall"]} = timeOnWall
        /\ ("notes" \in DOMAIN c) <=> (notes # "")
        /\ "notes" \in DOMAIN c => c["notes"] = notes
        /\ ("physicalSkills" \in DOMAIN c) <=> (physicalSkills # {})
        /\ "physicalSkills" \in DOMAIN c => c["physicalSkills"] = physicalSkills
        /\ ("technicalSkills" \in DOMAIN c) <=> (technicalSkills # {})
        /\ "technicalSkills" \in DOMAIN c => c["technicalSkills"] = technicalSkills
        /\ c["name"] # <<>>
        /\ c["grade"] # ""]_vars

C4_Witness ==
    /\ SubmitCalled
    /\ "height" \in DOMAIN Submitted
    /\ Submitted["height"] = 0
    /\ "location" \notin DOMAIN Submitted
    /\ "notes" \notin DOMAIN Submitted
    /\ "physicalSkills" \notin DOMAIN Submitted

\* C5: the name in the climb is the draft's name with leading and trailing
\* whitespace removed, and the grade in the climb is the draft's grade.
C5_NameTrimmedGradeUnchanged ==
    [][SubmitStep =>
        /\ SubmittedNext["name"] = Trim(name)
        /\ SubmittedNext["grade"] = grade]_vars

\* C6: a submit on a draft whose name or grade is empty calls nothing and
\* leaves every state cell, showOptional included, as it was.
C6_RejectedSubmitChangesNothing ==
    [][(lastOp' = "submit" /\ (name = <<>> \/ grade = "")) =>
        /\ calls' = <<>>
        /\ draft' = draft
        /\ showOptional' = showOptional]_vars

C6_Witness ==
    /\ lastOp = "submit"
    /\ calls = <<>>
    /\ name = <<>>
    /\ grade = "5.9"
    /\ showOptional
    /\ notes = "beta"

\* C7: after a submit that called onSubmit the draft is the default draft,
\* its location the session location (or "" without one).
C7_AcceptedSubmitResetsDraft ==
    SubmitCalled => draft = DefaultDraft

C7_Witness ==
    /\ SubmitCalled
    /\ sessionLocation = {"Gym X"}
    /\ "location" \notin DOMAIN Submitted
    /\ location = "Gym X"
    /\ name = <<>>

C9_ToggleKeepsDraft ==
    [][lastOp' = "toggleOptional" =>
        /\ showOptional' = ~showOptional
        /\ draft' = draft
        /\ Climb' = Climb
        /\ calls' = <<>>]_vars

C9_Witness ==
    /\ lastOp = "toggleOptional"
    /\ showOptional
    /\ edits >= 4
    /\ notes = "beta"

\* C10: opened with a session location L, a submit after exactly two updates
\* that made name and grade non-empty (so no other handler ran on this draft
\* and the optional section was never shown) passes exactly
\* {name, grade, tickType: send, effort: 7, location: L}.
C10_NameGradeOnlyClimb ==
    [][(/\ SubmitStep
        /\ sessionLocation # Undefined
        /\ edits = 2
        /\ name # <<>>
        /\ grade # "") =>
        /\ DOMAIN SubmittedNext = {"name", "grade", "tickType", "effort", "location"}
        /\ SubmittedNext["name"] = name
        /\ SubmittedNext["grade"] = grade
        /\ SubmittedNext["tickType"] = "send"
        /\ SubmittedNext["effort"] = 7
        /\ {SubmittedNext["location"]} = sessionLocation]_vars

C10_Witness ==
    /\ SubmitCalled
    /\ sessionLocation = {"Gym X"}
    /\ DOMAIN Submitted = {"name", "grade", "tickType", "effort", "location"}
    /\ Submitted["name"] = <<"a">>
    /\ Submitted["grade"] = "5.10a"
    /\ Submitted["location"] = "Gym X"
    /\ Submitted["effort"] = 7

\* C11: when the Grade Catalog has no label for the grading system, the
\* grade is always empty, submission is always blocked and onSubmit is
\* never called.
C11_EmptyCatalogBlocksSubmit ==
    getGradesForSystem(gradeSystem) = <<>> =>
        /\ grade = ""
        /\ SubmitBlocked
        /\ ~SubmitCalled

C11_Witness ==
    /\ getGradesForSystem(gradeSystem) = <<>>
    /\ lastOp = "submit"
    /\ name = <<"a">>
    /\ calls = <<>>

\* C12: effort is always in 1..10 and attempts in 1..5; every climb passed
\* to onSubmit has the key effort with a value in 1..10; effort starts at 7
\* and changes only by the slider or by the reset to 7 of a submit.
C12_EffortAndAttemptsInRange ==
    /\ [](/\ effort[1] \in 1..10
          /\ attempts \in 1..5
          /\ SubmitCalled =>
                /\ "effort" \in DOMAIN Submitted
                /\ Submitted["effort"] \in 1..10)
    /\ effort = <<7>>
    /\ [][/\ SubmitStep => SubmittedNext["effort"] = effort[1]
          /\ effort' # effort =>
                \/ lastOp' = "setEffort"
                \/ SubmitStep /\ effort' = <<7>>]_vars

C12_Witness ==
    /\ SubmitCalled
    /\ Submitted["effort"] = 10
    /\ effort = <<7>>

C14_UpdatesChangeOnlyTheirField ==
    [][/\ lastOp' = "setName" =>
            UNCHANGED <<grade, location, tickType, attempts, height, timeOnWall,
                        effort, notes, physicalSkills, technicalSkills, showOptional>>
       /\ lastOp' = "setGrade" =>
            UNCHANGED <<name, location, tickType, attempts, height, timeOnWall,
                        effort, notes, physicalSkills, technicalSkills, showOptional>>
       /\ lastOp' = "tickTypeClick" =>
            /\ UNCHANGED <<name, grade, location, height, timeOnWall, effort, notes,
                           physicalSkills, technicalSkills, showOptional>>
            /\ attempts' = IF tickType' = "attempt" THEN attempts ELSE 1
       /\ lastOp' = "setAttempts" =>
            UNCHANGED <<name, grade, location, tickType, height, timeOnWall, effort,
                        notes, physicalSkills, technicalSkills, showOptional>>
       /\ lastOp' = "setLocation" =>
            UNCHANGED <<name, grade, tickType, attempts, height, timeOnWall, effort,
                        notes, physicalSkills, technicalSkills, showOptional>>
       /\ lastOp' = "setHeight" =>
            UNCHANGED <<name, grade, location, tickType, attempts, timeOnWall, effort,
                        notes, physicalSkills, technicalSkills, showOptional>>
       /\ lastOp' = "setTimeOnWall" =>
            UNCHANGED <<name, grade, location, tickType, attempts, height, effort,
                        notes, physicalSkills, technicalSkills, showOptional>>
       /\ lastOp' = "setEffort" =>
            UNCHANGED <<name, grade, location, tickType, attempts, height, timeOnWall,
                        notes, physicalSkills, technicalSkills, showOptional>>
       /\ lastOp' = "setPhysicalSkills" =>
            UNCHANGED <<name, grade, location, tickType, attempts, height, timeOnWall,
                        effort, notes, technicalSkills, showOptional>>
       /\ lastOp' = "setTechnicalSkills" =>
            UNCHANGED <<name, grade, location, tickType, attempts, height, timeOnWall,
                        effort, notes, physicalSkills, showOptional>>
       /\ lastOp' = "setNotes" =>
            UNCHANGED <<name, grade, location, tickType, attempts, height, timeOnWall,
                        effort, physicalSkills, technicalSkills, showOptional>>]_vars

C14_Witness ==
    /\ lastOp = "tickTypeClick"
    /\ tickType = "attempt"
    /\ prevAttempts = 3
    /\ attempts = 3

\* C15: attempts differs from 1 only while the tick type is attempt.
C15_AttemptsOnlyWithAttempt ==
    attempts # 1 => tickType = "attempt"

C15_Witness ==
    /\ lastOp = "setAttempts"
    /\ tickType = "attempt"
    /\ attempts = 5

\* C16: the grade is empty or a label of the Grade Catalog for the grading
\* system, and the grade of every climb passed to onSubmit is such a label.
C16_GradeFromCatalog ==
    /\ grade \in {""} \cup SeqRange(getGradesForSystem(gradeSystem))
    /\ SubmitCalled => Submitted["grade"] \in SeqRange(getGradesForSystem(gradeSystem))

C16_Witness ==
    /\ SubmitCalled
    /\ Submitted["grade"] = "5.9"
    /\ grade = ""

\* C17: a submit that called onSubmit is never directly followed by another
\* one; every submit that calls onSubmit comes after an update of the name
\* and an update of the grade made since the previous such submit (or since
\* the form opened), so a repeated submit without input calls nothing.
C17_NoImmediateSecondSubmit ==
    [][/\ SubmitCalled => ~SubmitStep
       /\ (SubmitStep /\ logging) =>
              /\ \E i \in 1..Len(log) : log[i][1] = "setName" /\ log[i][2] # <<>>
              /\ \E i \in 1..Len(log) : log[i][1] = "setGrade"
       /\ (lastOp' = "submit" /\ edits = 0) => calls' = <<>>]_vars

C17_Witness ==
    /\ logging
    /\ earlierSubmitted
    /\ lastOp = "submit"
    /\ calls = <<>>
    /\ edits = 0

====
